---- MODULE Spec2Model ----
(***************************************************************************)
(* docu_learn backend services:                                            *)
(*   LearningOrchestrator (learning_orchestrator.py)                       *)
(*   LLMGenerator         (llm_generator.py)                               *)
(*   ContentAnalyzer      (content_analyzer.py)                            *)
(* The database, spaced-repetition, progress, LLM and NLP services are     *)
(* collaborators: every call to one of them either returns or raises.      *)
(***************************************************************************)
EXTENDS Integers, Sequences, FiniteSets, TLC

VARIABLES
    pc,        \* position of the orchestrator in the running handler
    args,      \* arguments of the running handler
    loc,       \* local variables of the running handler
    calls,     \* collaborator calls made by the running handler, in order
    db,        \* storage collaborator: the records it holds
    srs,       \* spaced-repetition collaborator: schedules and updates
    progress,  \* progress collaborator: trackers and recorded attempts
    logged,    \* logging.error calls made by the running handler
    outcome,   \* what the running handler gave its caller
    ncreate,   \* create_learning_session calls started
    nattempt,  \* process_quiz_attempt calls started
    gen,       \* LLMGenerator: the running generate_* call
    ana        \* ContentAnalyzer: the running analyze call

svars == <<pc, args, loc, calls, db, srs, progress, logged, outcome, ncreate, nattempt>>

vars == <<svars, gen, ana>>

-----------------------------------------------------------------------------
(* Bounds of the model *)

MaxCalls == 2

MaxQuestions == 4

-----------------------------------------------------------------------------
(* Values *)

Raised == "raised"

NumOptions == 4

Difficulties == {"Basic", "Intermediate", "Advanced"}

QuizCounts == {3, 5, 8, 10}

ReviewTimes == {1, 2}

\* a stored quiz question, as the orchestrator reads it
Question(i) == [correct_answer |-> (i - 1) % NumOptions, explanation |-> "because"]

\* quizzes handed over in generated_content['quiz']
QuizPool == {[i \in 1..n |-> Question(i)] : n \in 0..MaxQuestions}

\* answer lists: the first k answers are right, the others wrong
AnswerSheet(m, k) == [i \in 1..m |-> IF i <= k THEN (i - 1) % NumOptions ELSE i % NumOptions]

AnswerPool == {AnswerSheet(m, k) : m \in 0..(MaxQuestions + 1), k \in 0..(MaxQuestions + 1)}

\* generated_content: the 'quiz' key may be absent (.get('quiz', []))
GeneratedContents ==
    {[has_quiz |-> TRUE, quiz |-> q] : q \in QuizPool} \cup {[has_quiz |-> FALSE, quiz |-> <<>>]}

\* analysis dicts: either key may be absent (.get with a default)
AnalysisKeys == {"difficulty_level", "suggested_quiz_count"}

Analyses ==
    {a \in [present : SUBSET AnalysisKeys, difficulty_level : Difficulties,
            suggested_quiz_count : QuizCounts] :
        /\ ("difficulty_level" \notin a.present => a.difficulty_level = "Intermediate")
        /\ ("suggested_quiz_count" \notin a.present => a.suggested_quiz_count = 5)}

-----------------------------------------------------------------------------
(* LearningOrchestrator: pure helpers *)

\* int(base_time * difficulty_multiplier + quiz_count * 2), in tenths to keep 1.3 and 1.6 exact
_estimate_completion_time(analysis) ==
    LET difficulty == IF "difficulty_level" \in analysis.present
                      THEN analysis.difficulty_level ELSE "Intermediate"
        quiz_count == IF "suggested_quiz_count" \in analysis.present
                      THEN analysis.suggested_quiz_count ELSE 5
        multiplier10 == CASE difficulty = "Basic" -> 10
                          [] difficulty = "Intermediate" -> 13
                          [] difficulty = "Advanced" -> 16
                          [] OTHER -> 10
    IN  (10 * multiplier10 + quiz_count * 2 * 10) \div 10

Min(a, b) == IF a < b THEN a ELSE b

\* the loop over zip(quiz_questions, answers)
AttemptResults(quiz_questions, answers) ==
    [i \in 1..Min(Len(quiz_questions), Len(answers)) |->
        [question_id |-> i - 1,
         user_answer |-> answers[i],
         correct_answer |-> quiz_questions[i].correct_answer,
         is_correct |-> (quiz_questions[i].correct_answer = answers[i]),
         explanation |-> quiz_questions[i].explanation]]

CountCorrect(results) == Cardinality({i \in 1..Len(results) : results[i].is_correct})

\* score = (correct_answers / len(quiz_questions)) * 100, kept as the exact fraction
\* correct*100/total; ScoreGE compares it with a threshold
Score(correct_answers, total) == [num |-> correct_answers * 100, den |-> total]

ScoreGE(score, threshold) == score.num >= threshold * score.den

_determine_next_action(score) ==
    IF ScoreGE(score, 90) THEN "advance"
    ELSE IF ScoreGE(score, 70) THEN "review_weak"
    ELSE "repeat"

\* _generate_improvement_suggestions taking half of the results for more than half
GenerateSuggestionsFromHalf(results) ==
    LET incorrect == Cardinality({i \in 1..Len(results) : ~results[i].is_correct})
    IN  (IF 2 * incorrect >= Len(results) THEN <<"review_fundamentals">> ELSE <<>>)
        \o (IF incorrect > 0 THEN <<"focus_on_understanding">> ELSE <<>>)
        \o <<"create_examples">>

_generate_improvement_suggestions(results) ==
    LET incorrect == Cardinality({i \in 1..Len(results) : ~results[i].is_correct})
    IN  (IF 2 * incorrect > Len(results) THEN <<"review_fundamentals">> ELSE <<>>)
        \o (IF incorrect > 0 THEN <<"focus_on_understanding">> ELSE <<>>)
        \o <<"create_examples">>

-----------------------------------------------------------------------------
(* Collaborator calls *)

Id(table, n) == <<table, n>>

NoId == Id("none", 0)

\* status is "returned" or "raised"; ret is what a returning call gave back
Call(fn, arg, status, ret) == [fn |-> fn, arg |-> arg, status |-> status, ret |-> ret]

Exc(fn) == [type |-> "CollaboratorError", from |-> fn]

NoOutcome == [kind |-> "none"]

NoArgs == [op |-> "none"]

GenIdle == [pc |-> "off"]

AnaIdle == [pc |-> "off"]

SessionOff ==
    /\ pc = "off"
    /\ args = NoArgs
    /\ loc = <<>>
    /\ calls = <<>>
    /\ db = [sessions |-> {}, quizzes |-> <<>>, summaries |-> {}, mindmaps |-> {}]
    /\ srs = [scheduled |-> {}, updates |-> <<>>]
    /\ progress = [tracked |-> {}, attempts |-> <<>>]
    /\ logged = 0
    /\ outcome = NoOutcome
    /\ ncreate = 0
    /\ nattempt = 0

InitSession ==
    /\ gen = GenIdle
    /\ ana = AnaIdle
    /\ pc = "idle"
    /\ args = NoArgs
    /\ loc = <<>>
    /\ calls = <<>>
    /\ db = [sessions |-> {}, quizzes |-> <<>>, summaries |-> {}, mindmaps |-> {}]
    /\ srs = [scheduled |-> {}, updates |-> <<>>]
    /\ progress = [tracked |-> {}, attempts |-> <<>>]
    /\ logged = 0
    /\ outcome = NoOutcome
    /\ ncreate = 0
    /\ nattempt = 0

-----------------------------------------------------------------------------
(* create_learning_session *)

BeginCreate ==
    /\ pc = "idle"
    /\ ncreate + nattempt < MaxCalls
    /\ \E generated_content \in GeneratedContents, analysis \in Analyses :
          args' = [op |-> "create", generated_content |-> generated_content,
                   analysis |-> analysis]
    /\ pc' = "create_session_record"
    /\ loc' = [session_id |-> NoId, quiz_id |-> NoId, summary_id |-> NoId, mindmap_id |-> NoId]
    /\ calls' = <<>>
    /\ logged' = 0
    /\ outcome' = NoOutcome
    /\ ncreate' = ncreate + 1
    /\ UNCHANGED <<db, srs, progress, nattempt, gen, ana>>

\* a collaborator call that raises inside the try block: control goes to the handler
RaiseInCreate(fn, arg) ==
    /\ calls' = Append(calls, Call(fn, arg, Raised, NoId))
    /\ pc' = "create_except"
    /\ UNCHANGED <<args, loc, db, srs, progress, logged, outcome, ncreate, nattempt, gen, ana>>

\* session_id = self._create_session_record(user_id, document_id)
CreateSessionRecord ==
    /\ pc = "create_session_record"
    /\ \/ LET id == Id("session", Cardinality(db.sessions) + 1) IN
            /\ db' = [db EXCEPT !.sessions = @ \cup {id}]
            /\ loc' = [loc EXCEPT !.session_id = id]
            /\ calls' = Append(calls, Call("db.create_learning_session", NoId, "returned", id))
            /\ pc' = "store_quiz"
            /\ UNCHANGED <<args, srs, progress, logged, outcome, ncreate, nattempt, gen, ana>>
       \/ RaiseInCreate("db.create_learning_session", NoId)

\* quiz_id = self._store_quiz(session_id, generated_content.get('quiz', []))
_store_quiz ==
    /\ pc = "store_quiz"
    /\ \/ LET id == Id("quiz", Len(db.quizzes) + 1)
              questions == IF args.generated_content.has_quiz
                           THEN args.generated_content.quiz ELSE <<>> IN
            /\ db' = [db EXCEPT !.quizzes =
                         Append(@, [id |-> id, session_id |-> loc.session_id, questions |-> questions])]
            /\ loc' = [loc EXCEPT !.quiz_id = id]
            /\ calls' = Append(calls, Call("db.create_quiz", loc.session_id, "returned", id))
            /\ pc' = "store_summary"
            /\ UNCHANGED <<args, srs, progress, logged, outcome, ncreate, nattempt, gen, ana>>
       \/ RaiseInCreate("db.create_quiz", loc.session_id)

\* mutant: the summary is stored and the mind map step is skipped
StoreSummarySkippingMindmap ==
    /\ pc = "store_summary"
    /\ \/ LET id == Id("summary", Cardinality(db.summaries) + 1) IN
            /\ db' = [db EXCEPT !.summaries = @ \cup {id}]
            /\ loc' = [loc EXCEPT !.summary_id = id]
            /\ calls' = Append(calls, Call("db.create_summary", loc.session_id, "returned", id))
            /\ pc' = "initialize_schedule"
            /\ UNCHANGED <<args, srs, progress, logged, outcome, ncreate, nattempt, gen, ana>>
       \/ RaiseInCreate("db.create_summary", loc.session_id)

\* summary_id = self._store_summary(session_id, generated_content.get('summary', {}))
_store_summary ==
    /\ pc = "store_summary"
    /\ \/ LET id == Id("summary", Cardinality(db.summaries) + 1) IN
            /\ db' = [db EXCEPT !.summaries = @ \cup {id}]
            /\ loc' = [loc EXCEPT !.summary_id = id]
            /\ calls' = Append(calls, Call("db.create_summary", loc.session_id, "returned", id))
            /\ pc' = "store_mindmap"
            /\ UNCHANGED <<args, srs, progress, logged, outcome, ncreate, nattempt, gen, ana>>
       \/ RaiseInCreate("db.create_summary", loc.session_id)

\* mindmap_id = self._store_mindmap(session_id, generated_content.get('mindmap', {}))
_store_mindmap ==
    /\ pc = "store_mindmap"
    /\ \/ LET id == Id("mindmap", Cardinality(db.mindmaps) + 1) IN
            /\ db' = [db EXCEPT !.mindmaps = @ \cup {id}]
            /\ loc' = [loc EXCEPT !.mindmap_id = id]
            /\ calls' = Append(calls, Call("db.create_mindmap", loc.session_id, "returned", id))
            /\ pc' = "initialize_schedule"
            /\ UNCHANGED <<args, srs, progress, logged, outcome, ncreate, nattempt, gen, ana>>
       \/ RaiseInCreate("db.create_mindmap", loc.session_id)

\* self.srs.initialize_schedule(user_id, quiz_id)
InitializeSchedule ==
    /\ pc = "initialize_schedule"
    /\ \/ /\ srs' = [srs EXCEPT !.scheduled = @ \cup {loc.quiz_id}]
          /\ calls' = Append(calls, Call("srs.initialize_schedule", loc.quiz_id, "returned", NoId))
          /\ pc' = "initialize_progress"
          /\ UNCHANGED <<args, loc, db, progress, logged, outcome, ncreate, nattempt, gen, ana>>
       \/ RaiseInCreate("srs.initialize_schedule", loc.quiz_id)

\* self.progress.initialize_progress(user_id, session_id, analysis)
InitializeProgress ==
    /\ pc = "initialize_progress"
    /\ \/ /\ progress' = [progress EXCEPT !.tracked = @ \cup {loc.session_id}]
          /\ calls' = Append(calls, Call("progress.initialize_progress", loc.session_id, "returned", NoId))
          /\ pc' = "create_return"
          /\ UNCHANGED <<args, loc, db, srs, logged, outcome, ncreate, nattempt, gen, ana>>
       \/ RaiseInCreate("progress.initialize_progress", loc.session_id)

\* return {...}: the dict is built, querying srs.get_next_review_time on the way
CreateReturn ==
    /\ pc = "create_return"
    /\ \/ \E t \in ReviewTimes :
            /\ calls' = Append(calls, Call("srs.get_next_review_time", loc.quiz_id, "returned", Id("review", t)))
            /\ outcome' = [kind |-> "returned",
                           value |-> [session_id |-> loc.session_id,
                                      quiz_id |-> loc.quiz_id,
                                      summary_id |-> loc.summary_id,
                                      mindmap_id |-> loc.mindmap_id,
                                      next_review |-> Id("review", t),
                                      estimated_completion_time |->
                                          _estimate_completion_time(args.analysis)]]
            /\ pc' = "done"
            /\ UNCHANGED <<args, loc, db, srs, progress, logged, ncreate, nattempt, gen, ana>>
       \/ RaiseInCreate("srs.get_next_review_time", loc.quiz_id)

\* mutant: the handler deletes the session record before re-raising
CreateExceptWithRollback ==
    /\ pc = "create_except"
    /\ logged' = logged + 1
    /\ db' = [db EXCEPT !.sessions = @ \ {loc.session_id}]
    /\ outcome' = [kind |-> "raised", exc |-> Exc(calls[Len(calls)].fn)]
    /\ pc' = "done"
    /\ UNCHANGED <<args, loc, calls, srs, progress, ncreate, nattempt, gen, ana>>

\* except Exception as e: logging.error(...); raise
CreateExcept ==
    /\ pc = "create_except"
    /\ logged' = logged + 1
    /\ outcome' = [kind |-> "raised", exc |-> Exc(calls[Len(calls)].fn)]
    /\ pc' = "done"
    /\ UNCHANGED <<args, loc, calls, db, srs, progress, ncreate, nattempt, gen, ana>>

-----------------------------------------------------------------------------
(* process_quiz_attempt: no try block, so whatever is raised leaves the handler at once *)

QuizIds == {Id("quiz", n) : n \in 1..MaxCalls}

StoredQuiz(quiz_id) == {q \in {db.quizzes[i] : i \in 1..Len(db.quizzes)} : q.id = quiz_id}

BeginAttempt ==
    /\ pc = "idle"
    /\ ncreate + nattempt < MaxCalls
    /\ \E quiz_id \in QuizIds, answers \in AnswerPool :
          args' = [op |-> "attempt", quiz_id |-> quiz_id, answers |-> answers]
    /\ pc' = "get_quiz_questions"
    /\ loc' = [quiz_questions |-> <<>>, correct_answers |-> 0, results |-> <<>>,
               score |-> Score(0, 1), next_action |-> "none"]
    /\ calls' = <<>>
    /\ logged' = 0
    /\ outcome' = NoOutcome
    /\ nattempt' = nattempt + 1
    /\ UNCHANGED <<db, srs, progress, ncreate, gen, ana>>

RaiseInAttempt(fn, arg) ==
    /\ calls' = Append(calls, Call(fn, arg, Raised, NoId))
    /\ outcome' = [kind |-> "raised", exc |-> Exc(fn)]
    /\ pc' = "done"
    /\ UNCHANGED <<args, loc, db, srs, progress, logged, ncreate, nattempt, gen, ana>>

\* quiz_questions = self.db.get_quiz_questions(quiz_id)
GetQuizQuestions ==
    /\ pc = "get_quiz_questions"
    /\ \/ \E q \in StoredQuiz(args.quiz_id) :
            /\ loc' = [loc EXCEPT !.quiz_questions = q.questions]
            /\ calls' = Append(calls, Call("db.get_quiz_questions", args.quiz_id, "returned", NoId))
            /\ pc' = "score"
            /\ UNCHANGED <<args, db, srs, progress, logged, outcome, ncreate, nattempt, gen, ana>>
       \/ RaiseInAttempt("db.get_quiz_questions", args.quiz_id)

\* the zip loop, then score = (correct_answers / len(quiz_questions)) * 100
ScoreAttempt ==
    /\ pc = "score"
    /\ LET results == AttemptResults(loc.quiz_questions, args.answers)
           correct_answers == CountCorrect(results) IN
         IF Len(loc.quiz_questions) = 0
         THEN /\ loc' = [loc EXCEPT !.results = results, !.correct_answers = correct_answers]
              /\ outcome' = [kind |-> "raised",
                             exc |-> [type |-> "ZeroDivisionError", from |-> "process_quiz_attempt"]]
              /\ pc' = "done"
         ELSE /\ loc' = [loc EXCEPT !.results = results, !.correct_answers = correct_answers,
                                    !.score = Score(correct_answers, Len(loc.quiz_questions))]
              /\ outcome' = outcome
              /\ pc' = "update_schedule"
    /\ UNCHANGED <<args, calls, db, srs, progress, logged, ncreate, nattempt, gen, ana>>

\* self.srs.update_schedule(user_id, quiz_id, score)
UpdateSchedule ==
    /\ pc = "update_schedule"
    /\ \/ /\ srs' = [srs EXCEPT !.updates = Append(@, [quiz_id |-> args.quiz_id, score |-> loc.score])]
          /\ calls' = Append(calls, Call("srs.update_schedule", loc.score, "returned", NoId))
          /\ pc' = "record_attempt"
          /\ UNCHANGED <<args, loc, db, progress, logged, outcome, ncreate, nattempt, gen, ana>>
       \/ RaiseInAttempt("srs.update_schedule", loc.score)

\* self.progress.record_attempt(user_id, quiz_id, score, results)
RecordAttempt ==
    /\ pc = "record_attempt"
    /\ \/ /\ progress' = [progress EXCEPT !.attempts =
                             Append(@, [quiz_id |-> args.quiz_id, score |-> loc.score])]
          /\ calls' = Append(calls, Call("progress.record_attempt", loc.score, "returned", NoId))
          /\ pc' = "attempt_return"
          /\ UNCHANGED <<args, loc, db, srs, logged, outcome, ncreate, nattempt, gen, ana>>
       \/ RaiseInAttempt("progress.record_attempt", loc.score)

\* next_action = self._determine_next_action(score, results); return {...}
AttemptReturn ==
    /\ pc = "attempt_return"
    /\ \/ \E t \in ReviewTimes :
            /\ calls' = Append(calls, Call("srs.get_next_review_time", args.quiz_id,
                                           "returned", Id("review", t)))
            /\ loc' = [loc EXCEPT !.next_action = _determine_next_action(loc.score)]
            /\ outcome' = [kind |-> "returned",
                           value |-> [score |-> loc.score,
                                      correct_answers |-> loc.correct_answers,
                                      total_questions |-> Len(loc.quiz_questions),
                                      results |-> loc.results,
                                      next_review |-> Id("review", t),
                                      next_action |-> _determine_next_action(loc.score),
                                      improvement_suggestions |->
                                          _generate_improvement_suggestions(loc.results)]]
            /\ pc' = "done"
            /\ UNCHANGED <<args, db, srs, progress, logged, ncreate, nattempt, gen, ana>>
       \/ RaiseInAttempt("srs.get_next_review_time", args.quiz_id)

\* the caller takes the outcome; the orchestrator is ready for the next call
Finish ==
    /\ pc = "done"
    /\ pc' = "idle"
    /\ args' = NoArgs
    /\ loc' = <<>>
    /\ calls' = <<>>
    /\ logged' = 0
    /\ outcome' = NoOutcome
    /\ UNCHANGED <<db, srs, progress, ncreate, nattempt, gen, ana>>

NextSession ==
    \/ BeginCreate
    \/ CreateSessionRecord
    \/ _store_quiz
    \/ _store_summary
    \/ _store_mindmap
    \/ InitializeSchedule
    \/ InitializeProgress
    \/ CreateReturn
    \/ CreateExcept
    \/ BeginAttempt
    \/ GetQuizQuestions
    \/ ScoreAttempt
    \/ UpdateSchedule
    \/ RecordAttempt
    \/ AttemptReturn
    \/ Finish

Init == InitSession

Next == NextSession

Spec == Init /\ [][Next]_vars

-----------------------------------------------------------------------------
(* Properties of create_learning_session *)

CreateOrder ==
    <<"db.create_learning_session", "db.create_quiz", "db.create_summary", "db.create_mindmap",
      "srs.initialize_schedule", "progress.initialize_progress", "srs.get_next_review_time">>

InCreate == args.op = "create"

InAttempt == args.op = "attempt"

SomeCallRaised == \E i \in 1..Len(calls) : calls[i].status = Raised

\* C1: create_learning_session calls db.create_learning_session, db.create_quiz,
\* db.create_summary, db.create_mindmap, srs.initialize_schedule and
\* progress.initialize_progress in this order, each at most once, a step starting only
\* when every earlier one has returned; the result is returned only after all six have
\* returned and carries the ids they returned.
C1_CreateStepsInOrder ==
    InCreate =>
        /\ Len(calls) <= Len(CreateOrder)
        /\ \A i \in 1..Len(calls) : calls[i].fn = CreateOrder[i]
        /\ \A i \in 1..(Len(calls) - 1) : calls[i].status = "returned"
        /\ outcome.kind = "returned" =>
              /\ Len(calls) = Len(CreateOrder)
              /\ \A i \in 1..Len(calls) : calls[i].status = "returned"
              /\ outcome.value.session_id = calls[1].ret
              /\ outcome.value.quiz_id = calls[2].ret
              /\ outcome.value.summary_id = calls[3].ret
              /\ outcome.value.mindmap_id = calls[4].ret
              /\ outcome.value.estimated_completion_time = _estimate_completion_time(args.analysis)

C1_Witness ==
    /\ InCreate
    /\ pc = "done"
    /\ outcome.kind = "returned"
    /\ Len(calls) = 7
    /\ outcome.value.mindmap_id = Id("mindmap", 1)

\* the effect of a returned call is held by the collaborator it was made to
EffectInPlace(c) ==
    CASE c.fn = "db.create_learning_session" -> c.ret \in db.sessions
      [] c.fn = "db.create_quiz" -> \E i \in 1..Len(db.quizzes) : db.quizzes[i].id = c.ret
      [] c.fn = "db.create_summary" -> c.ret \in db.summaries
      [] c.fn = "db.create_mindmap" -> c.ret \in db.mindmaps
      [] c.fn = "srs.initialize_schedule" -> c.arg \in srs.scheduled
      [] c.fn = "progress.initialize_progress" -> c.arg \in progress.tracked
      [] OTHER -> TRUE

\* C2: when a step of create_learning_session raises, that exception reaches the caller
\* after one logging.error call, no later step is invoked, no result is returned, and
\* what the completed steps stored stays stored.
C2_CreateFailurePropagates ==
    (InCreate /\ SomeCallRaised) =>
        /\ calls[Len(calls)].status = Raised
        /\ \A i \in 1..(Len(calls) - 1) : calls[i].status = "returned" /\ EffectInPlace(calls[i])
        /\ pc \in {"create_except", "done"}
        /\ outcome.kind # "returned"
        /\ pc = "done" =>
              /\ outcome.kind = "raised"
              /\ outcome.exc = Exc(calls[Len(calls)].fn)
              /\ logged = 1

C2_Witness ==
    /\ InCreate
    /\ pc = "done"
    /\ Len(calls) = 5
    /\ calls[5].status = Raised
    /\ outcome.kind = "raised"
    /\ Cardinality(db.mindmaps) = 1

-----------------------------------------------------------------------------
(* Properties of process_quiz_attempt *)

\* the quiz came back from storage and no collaborator call of the attempt raised
AttemptUndisturbed ==
    /\ InAttempt
    /\ pc = "done"
    /\ Len(calls) >= 1
    /\ ~SomeCallRaised

\* C7: for every stored quiz and answers list process_quiz_attempt returns
\* score = correct/total*100, with next_action 'advance' iff score >= 90,
\* 'review_weak' iff 70 <= score < 90 and 'repeat' iff score < 70.
C7_ScoreAndNextAction ==
    AttemptUndisturbed =>
        /\ outcome.kind = "returned"
        /\ outcome.value.score.num = 100 * CountCorrect(loc.results)
        /\ outcome.value.score.den = Len(loc.quiz_questions)
        /\ (outcome.value.next_action = "advance") <=> ScoreGE(outcome.value.score, 90)
        /\ (outcome.value.next_action = "review_weak") <=>
              (ScoreGE(outcome.value.score, 70) /\ ~ScoreGE(outcome.value.score, 90))
        /\ (outcome.value.next_action = "repeat") <=> ~ScoreGE(outcome.value.score, 70)

AttemptOrder ==
    <<"db.get_quiz_questions", "srs.update_schedule", "progress.record_attempt",
      "srs.get_next_review_time">>

\* C8: every process_quiz_attempt call on a quiz returned by storage, a quiz with no
\* questions included, calls srs.update_schedule and then progress.record_attempt, once
\* each and with the returned score, before srs.get_next_review_time; a step that raises
\* is logged, ends the call and leaves the earlier SRS update in place.
C8_AttemptUpdatesCollaborators ==
    (InAttempt /\ pc = "done" /\ Len(calls) >= 1 /\ calls[1].status = "returned") =>
        /\ Len(calls) >= 2
        /\ \A i \in 1..Len(calls) : i <= Len(AttemptOrder) /\ calls[i].fn = AttemptOrder[i]
        /\ \A i \in 1..(Len(calls) - 1) : calls[i].status = "returned"
        /\ SomeCallRaised => (outcome.kind = "raised" /\ logged = 1)
        /\ ~SomeCallRaised =>
              /\ outcome.kind = "returned"
              /\ Len(calls) = Len(AttemptOrder)
              /\ calls[2].arg = outcome.value.score
              /\ calls[3].arg = outcome.value.score

\* process_quiz_attempt returned its result
AttemptReturned == InAttempt /\ outcome.kind = "returned"

Suggests(suggestions, text) == \E k \in 1..Len(suggestions) : suggestions[k] = text

\* C14: the improvement_suggestions of a quiz attempt are 1 to 3 entries decided by the
\* share of incorrect answers among the answers that were marked: 'review fundamentals'
\* is there iff more than half are incorrect, 'focus on understanding' iff at least one
\* is incorrect, the generic suggestion is always there and last; so 'review
\* fundamentals' never comes without 'focus on understanding' and an attempt with no
\* incorrect answer gets the generic suggestion alone.
C14_SuggestionsByIncorrectShare ==
    AttemptReturned =>
        LET suggestions == outcome.value.improvement_suggestions
            marked == 1..Min(Len(loc.quiz_questions), Len(args.answers))
            incorrect == Cardinality({i \in marked :
                             args.answers[i] # loc.quiz_questions[i].correct_answer})
        IN  /\ Len(suggestions) >= 1 /\ Len(suggestions) <= 3
            /\ \A k \in 1..Len(suggestions) : \A l \in 1..Len(suggestions) :
                   suggestions[k] = suggestions[l] => k = l
            /\ Suggests(suggestions, "review_fundamentals") <=>
                   2 * incorrect > Cardinality(marked)
            /\ Suggests(suggestions, "focus_on_understanding") <=> incorrect > 0
            /\ suggestions[Len(suggestions)] = "create_examples"
            /\ Suggests(suggestions, "review_fundamentals") =>
                   Suggests(suggestions, "focus_on_understanding")
            /\ incorrect = 0 => suggestions = <<"create_examples">>

\* exactly half of four answers incorrect: no 'review fundamentals'
C14_Witness ==
    /\ AttemptReturned
    /\ Len(outcome.value.results) = 4
    /\ CountCorrect(outcome.value.results) = 2
    /\ outcome.value.improvement_suggestions = <<"focus_on_understanding", "create_examples">>

\* C15: the result of process_quiz_attempt is consistent for every answers list: as many
\* results as total_questions, correct_answers the number of correct results, correct
\* and incorrect results adding up to total_questions, a score from 0 to 100, a score
\* below 50 with 'review fundamentals' and a score below 100 with 'focus on
\* understanding'.
C15_ResultConsistent ==
    AttemptReturned =>
        LET value == outcome.value
            incorrect == Cardinality({i \in 1..Len(value.results) :
                                         ~value.results[i].is_correct})
        IN  /\ Len(value.results) = value.total_questions
            /\ value.correct_answers = CountCorrect(value.results)
            /\ value.correct_answers + incorrect = value.total_questions
            /\ value.score.num >= 0 /\ value.score.num <= 100 * value.score.den
            /\ value.score.num < 50 * value.score.den =>
                   Suggests(value.improvement_suggestions, "review_fundamentals")
            /\ value.score.num < 100 * value.score.den =>
                   Suggests(value.improvement_suggestions, "focus_on_understanding")

-----------------------------------------------------------------------------
(* LLMGenerator: JSON values, as json.loads gives them to Python *)

MaxItems == 2

MaxConcepts == 4

JNull == [t |-> "null", v |-> 0]

JBool(b) == [t |-> "bool", v |-> b]

JInt(n) == [t |-> "int", v |-> n]

\* a float, held in tenths
JFloat(tenths) == [t |-> "float", v |-> tenths]

JStr(s) == [t |-> "str", v |-> s]

JList(items) == [t |-> "list", v |-> items]

\* an f-string: the fixed text and the number interpolated into it
JText(template, n) == [t |-> "str", v |-> template, n |-> n]

\* a dict: a function from its keys to their values
JDict(f) == [t |-> "dict", v |-> f]

\* a key that the dict does not hold (only used to build dicts)
Absent == [t |-> "absent", v |-> 0]

\* dict.get(key, default)
Get(d, key, default) == IF key \in DOMAIN d.v THEN d.v[key] ELSE default

\* isinstance(x, int): bool is a subclass of int
IsInstanceInt(x) == x.t \in {"int", "bool"}

\* the number Python compares a value known to be an int instance as
IntOf(x) == IF x.t = "bool" THEN (IF x.v THEN 1 ELSE 0) ELSE x.v

Options(n) == JList([i \in 1..n |-> JStr("option")])

MkItem(question, options, correct_answer, explanation) ==
    LET f == [question |-> question, options |-> options, correct_answer |-> correct_answer,
              explanation |-> explanation,
              difficulty |-> IF explanation = Absent THEN Absent ELSE JStr("Advanced"),
              concept |-> IF explanation = Absent THEN Absent ELSE JStr("Cells")]
    IN  JDict([k \in {k \in DOMAIN f : f[k] # Absent} |-> f[k]])

\* entries of a parsed quiz array: well formed ones, ones with one field wrong, an
\* empty record, and entries that are not records
ItemPool ==
    {MkItem(JStr("Q?"), Options(NumOptions), JInt(c), e) :
        c \in {0, NumOptions - 1}, e \in {Absent, JStr("why")}}
    \cup {MkItem(q, Options(NumOptions), JInt(0), Absent) : q \in {Absent, JInt(7), JNull}}
    \cup {MkItem(JStr("Q?"), o, JInt(0), Absent) :
            o \in {Absent, Options(NumOptions - 1), Options(NumOptions + 1), JStr("ABCD"), JNull}}
    \cup {MkItem(JStr("Q?"), Options(NumOptions), c, Absent) :
            c \in {Absent, JInt(-1), JInt(NumOptions), JBool(TRUE), JBool(FALSE),
                   JFloat(10), JStr("1"), JNull}}
    \cup {JDict(<<>>), JStr("text"), JInt(1), JNull}

QuizDocs == {JList(items) : items \in UNION {[1..n -> ItemPool] : n \in 0..MaxItems}}

SummaryDoc(level) ==
    JDict([overview |-> JStr("about"), main_points |-> JList(<<JStr("point")>>),
           key_takeaways |-> JList(<<JStr("takeaway")>>), complexity_level |-> JStr(level)])

MindmapDoc ==
    JDict([central_topic |-> JStr("subject"),
           branches |-> JList(<<JDict([name |-> JStr("branch"),
                                       children |-> JList(<<JDict([name |-> JStr("sub")])>>)])>>)])

OtherDocs ==
    {SummaryDoc("Advanced"), SummaryDoc("Hard"), MindmapDoc,
     JDict([overview |-> JStr("about")]), JDict(<<>>), JStr(""), JStr("text"), JInt(3), JNull}

\* what the LLM request gives: an exception, or a text that json.loads parses or not
LLMOutcomes ==
    {[kind |-> "error", parses |-> FALSE, doc |-> JNull],
     [kind |-> "text", parses |-> FALSE, doc |-> JNull]}
    \cup {[kind |-> "text", parses |-> TRUE, doc |-> d] : d \in QuizDocs \cup OtherDocs}

ConceptNames == <<"cell", "atom", "wave", "proof", "empire", "novel">>

\* analysis['key_concepts'] as ContentAnalyzer builds it, or an analysis without the key
GenAnalyses ==
    {[has_key_concepts |-> TRUE, key_concepts |-> [i \in 1..n |-> ConceptNames[i]]] :
        n \in 0..MaxConcepts}
    \cup {[has_key_concepts |-> FALSE, key_concepts |-> <<>>]}

\* content, by len(content.split())
ContentWords == {0, 12}

-----------------------------------------------------------------------------
(* LLMGenerator: validation and fallbacks *)

Returned(value) == [kind |-> "returned", value |-> value]

RaisedExc(type) == [kind |-> "raised", value |-> JStr(type)]

\* the condition of the if in _validate_quiz, on a dict q
ItemPasses(q) ==
    /\ Get(q, "question", JNull).t = "str"
    /\ Get(q, "options", JNull).t = "list"
    /\ Len(Get(q, "options", JList(<<>>)).v) = NumOptions
    /\ IsInstanceInt(Get(q, "correct_answer", JNull))
    /\ 0 <= IntOf(Get(q, "correct_answer", JInt(-1)))
    /\ IntOf(Get(q, "correct_answer", JInt(-1))) < NumOptions

\* the dict appended for a passing q
CleanItem(q) ==
    JDict([question |-> q.v["question"],
           options |-> q.v["options"],
           correct_answer |-> q.v["correct_answer"],
           explanation |-> Get(q, "explanation", JStr("")),
           difficulty |-> Get(q, "difficulty", JStr("Intermediate")),
           concept |-> Get(q, "concept", JStr("General"))])

RECURSIVE ValidateLoop(_, _, _)
\* for q in quiz_data: q.get(...) raises AttributeError on a q that is no dict
ValidateLoop(items, i, validated_quiz) ==
    IF i > Len(items) THEN Returned(JList(validated_quiz))
    ELSE IF items[i].t # "dict" THEN RaisedExc("AttributeError")
    ELSE ValidateLoop(items, i + 1,
                      IF ItemPasses(items[i]) THEN Append(validated_quiz, CleanItem(items[i]))
                      ELSE validated_quiz)

\* iterating a dict gives its keys and a str its characters (strings, so q.get raises);
\* a number, a bool or None is not iterable
_validate_quiz(quiz_data) ==
    CASE quiz_data.t = "list" -> ValidateLoop(quiz_data.v, 1, <<>>)
      [] quiz_data.t = "dict" -> IF DOMAIN quiz_data.v = {} THEN Returned(JList(<<>>))
                                 ELSE RaisedExc("AttributeError")
      [] quiz_data.t = "str" -> IF quiz_data.v = "" THEN Returned(JList(<<>>))
                                ELSE RaisedExc("AttributeError")
      [] OTHER -> RaisedExc("TypeError")

_generate_fallback_quiz(content) ==
    JList(<<JDict([question |-> JStr("What is the main topic of this document?"),
                   options |-> JList(<<JStr("Topic A"), JStr("Topic B"), JStr("Topic C"),
                                       JStr("Topic D")>>),
                   correct_answer |-> JInt(0),
                   explanation |-> JStr("Fallback question generated due to processing error."),
                   difficulty |-> JStr("Basic"),
                   concept |-> JStr("General")])>>)

\* the overview sentence is held by the word count it reports
_generate_fallback_summary(content) ==
    JDict([overview |-> JText("This document contains approximately {} words of educational content.",
                             content),
           main_points |-> JList(<<JStr("Content processing in progress")>>),
           key_takeaways |-> JList(<<JStr("Please try again later")>>),
           complexity_level |-> JStr("Unknown")])

_generate_fallback_mindmap(key_concepts) ==
    JDict([central_topic |-> JStr("Document Content"),
           branches |-> JList([i \in 1..Min(3, Len(key_concepts)) |->
                                  JDict([name |-> JStr(key_concepts[i]),
                                         children |-> JList(<<JDict([name |-> JStr("Details")])>>)])])])

-----------------------------------------------------------------------------
(* LLMGenerator: generate_quiz, generate_summary, generate_mindmap_data *)

NoCall == [kind |-> "none", value |-> JNull]

GenReady ==
    [pc |-> "idle", kind |-> "none", content |-> 0, analysis |-> [has_key_concepts |-> FALSE, key_concepts |-> <<>>],
     resp |-> [kind |-> "none", parses |-> FALSE, doc |-> JNull],
     requests |-> 0, logged |-> 0, validated |-> NoCall, outcome |-> NoCall]

InitGen ==
    /\ gen = GenReady
    /\ ana = AnaIdle
    /\ SessionOff

\* key_concepts = analysis.get('key_concepts', [])
KeyConcepts(analysis) == IF analysis.has_key_concepts THEN analysis.key_concepts ELSE <<>>

\* a generate_* call starts: the prompt is built from content and analysis
BeginGenerate ==
    /\ gen.pc = "idle"
    /\ \E kind \in {"quiz", "summary", "mindmap"}, content \in ContentWords,
          analysis \in GenAnalyses :
          gen' = [GenReady EXCEPT !.pc = "request", !.kind = kind, !.content = content,
                                  !.analysis = analysis]
    /\ UNCHANGED <<svars, ana>>

\* response = self.client.chat.completions.create(...)
LLMRequest ==
    /\ gen.pc = "request"
    /\ \E r \in LLMOutcomes :
          gen' = [gen EXCEPT !.resp = r, !.requests = @ + 1, !.pc = gen.kind]
    /\ UNCHANGED <<svars, ana>>

\* the request raised, or json.loads raised on the text
ResponseFailed(resp) == resp.kind = "error" \/ ~resp.parses

\* mutant: the except branch lets the exception out instead of returning the fallback
GenerateQuizReraising ==
    /\ gen.pc = "quiz"
    /\ IF ResponseFailed(gen.resp)
       THEN gen' = [gen EXCEPT !.logged = @ + 1, !.pc = "done",
                               !.outcome = RaisedExc("Exception")]
       ELSE LET validated == _validate_quiz(gen.resp.doc) IN
            IF validated.kind = "raised"
            THEN gen' = [gen EXCEPT !.validated = validated, !.logged = @ + 1, !.pc = "done",
                                    !.outcome = Returned(_generate_fallback_quiz(gen.content))]
            ELSE gen' = [gen EXCEPT !.validated = validated, !.pc = "done",
                                    !.outcome = validated]
    /\ UNCHANGED <<svars, ana>>

\* the rest of generate_quiz: json.loads, _validate_quiz, and the except branch
generate_quiz ==
    /\ gen.pc = "quiz"
    /\ IF ResponseFailed(gen.resp)
       THEN gen' = [gen EXCEPT !.logged = @ + 1, !.pc = "done",
                               !.outcome = Returned(_generate_fallback_quiz(gen.content))]
       ELSE LET validated == _validate_quiz(gen.resp.doc) IN
            IF validated.kind = "raised"
            THEN gen' = [gen EXCEPT !.validated = validated, !.logged = @ + 1, !.pc = "done",
                                    !.outcome = Returned(_generate_fallback_quiz(gen.content))]
            ELSE gen' = [gen EXCEPT !.validated = validated, !.pc = "done",
                                    !.outcome = validated]
    /\ UNCHANGED <<svars, ana>>

\* the rest of generate_summary: return json.loads(...), and the except branch
generate_summary ==
    /\ gen.pc = "summary"
    /\ IF ResponseFailed(gen.resp)
       THEN gen' = [gen EXCEPT !.logged = @ + 1, !.pc = "done",
                               !.outcome = Returned(_generate_fallback_summary(gen.content))]
       ELSE gen' = [gen EXCEPT !.pc = "done", !.outcome = Returned(gen.resp.doc)]
    /\ UNCHANGED <<svars, ana>>

\* the rest of generate_mindmap_data: return json.loads(...), and the except branch
generate_mindmap_data ==
    /\ gen.pc = "mindmap"
    /\ IF ResponseFailed(gen.resp)
       THEN gen' = [gen EXCEPT !.logged = @ + 1, !.pc = "done",
                               !.outcome = Returned(_generate_fallback_mindmap(
                                                        KeyConcepts(gen.analysis)))]
       ELSE gen' = [gen EXCEPT !.pc = "done", !.outcome = Returned(gen.resp.doc)]
    /\ UNCHANGED <<svars, ana>>

\* the caller takes the artifact
GenFinish ==
    /\ gen.pc = "done"
    /\ gen' = GenReady
    /\ UNCHANGED <<svars, ana>>

NextGen ==
    \/ BeginGenerate
    \/ LLMRequest
    \/ generate_quiz
    \/ generate_summary
    \/ generate_mindmap_data
    \/ GenFinish

SpecGen == InitGen /\ [][NextGen]_vars

-----------------------------------------------------------------------------
(* Properties of LLMGenerator *)

GenDone(kind) == gen.pc = "done" /\ gen.kind = kind

\* C3: when the LLM request raises or its response does not parse, generate_quiz,
\* generate_summary and generate_mindmap_data return their static fallback and do not
\* raise, after one LLM request; the fallback quiz is one item with correct_answer 0 and
\* difficulty 'Basic'.
C3_FailureGivesFallback ==
    (gen.pc = "done" /\ ResponseFailed(gen.resp)) =>
        /\ gen.outcome.kind = "returned"
        /\ gen.requests = 1
        /\ gen.kind = "quiz" =>
              /\ gen.outcome.value.t = "list"
              /\ Len(gen.outcome.value.v) = 1
              /\ gen.outcome.value.v[1].v["correct_answer"] = JInt(0)
              /\ gen.outcome.value.v[1].v["difficulty"] = JStr("Basic")
              /\ Len(gen.outcome.value.v[1].v["options"].v) = NumOptions
        /\ gen.kind = "summary" =>
              /\ gen.outcome.value.t = "dict"
              /\ gen.outcome.value.v["overview"].n = gen.content
              /\ gen.outcome.value.v["main_points"] = JList(<<JStr("Content processing in progress")>>)
              /\ gen.outcome.value.v["key_takeaways"] = JList(<<JStr("Please try again later")>>)
              /\ gen.outcome.value.v["complexity_level"] = JStr("Unknown")
        /\ gen.kind = "mindmap" =>
              /\ gen.outcome.value.t = "dict"
              /\ gen.outcome.value.v["central_topic"] = JStr("Document Content")
              /\ LET branches == gen.outcome.value.v["branches"].v
                     key_concepts == KeyConcepts(gen.analysis) IN
                   /\ Len(branches) = Min(3, Len(key_concepts))
                   /\ \A i \in 1..Len(branches) : branches[i].v["name"] = JStr(key_concepts[i])

C3_Witness ==
    /\ GenDone("quiz")
    /\ gen.resp.kind = "error"
    /\ gen.outcome.kind = "returned"
    /\ gen.logged = 1

IsStr(x) == x.t = "str"

HasKeys(x, keys) == x.t = "dict" /\ keys \subseteq DOMAIN x.v

DifficultyValues == {JStr(d) : d \in Difficulties}

\* QuizItem of the data model
IsQuizItem(x) ==
    /\ HasKeys(x, {"question", "options", "correct_answer", "explanation", "difficulty", "concept"})
    /\ IsStr(x.v["question"])
    /\ x.v["options"].t = "list"
    /\ Len(x.v["options"].v) = NumOptions
    /\ \A i \in 1..Len(x.v["options"].v) : IsStr(x.v["options"].v[i])
    /\ x.v["correct_answer"].t = "int"
    /\ x.v["correct_answer"].v \in 0..(NumOptions - 1)
    /\ IsStr(x.v["explanation"])
    /\ x.v["difficulty"] \in DifficultyValues
    /\ IsStr(x.v["concept"])

IsQuiz(x) == x.t = "list" /\ \A i \in 1..Len(x.v) : IsQuizItem(x.v[i])

\* Summary of the data model
IsSummary(x) ==
    /\ HasKeys(x, {"overview", "main_points", "key_takeaways", "complexity_level"})
    /\ IsStr(x.v["overview"])
    /\ x.v["main_points"].t = "list"
    /\ x.v["key_takeaways"].t = "list"
    /\ x.v["complexity_level"] \in DifficultyValues

\* MindMap of the data model
IsMindMap(x) ==
    /\ HasKeys(x, {"central_topic", "branches"})
    /\ IsStr(x.v["central_topic"])
    /\ x.v["branches"].t = "list"

\* C4: whatever the LLM gives (an error, an unparseable text, JSON of any shape),
\* generate_quiz returns a list of valid QuizItems, generate_summary a Summary record
\* with complexity_level in the difficulty enum, and generate_mindmap_data a MindMap
\* record.
C4_AlwaysValidArtifact ==
    gen.pc = "done" =>
        /\ gen.outcome.kind = "returned"
        /\ gen.kind = "quiz" => IsQuiz(gen.outcome.value)
        /\ gen.kind = "summary" => IsSummary(gen.outcome.value)
        /\ gen.kind = "mindmap" => IsMindMap(gen.outcome.value)

\* the rule of the QuizValidator contract, on a record q
WellFormed(q) ==
    /\ "question" \in DOMAIN q.v /\ q.v["question"].t = "str"
    /\ "options" \in DOMAIN q.v /\ q.v["options"].t = "list" /\ Len(q.v["options"].v) = NumOptions
    /\ "correct_answer" \in DOMAIN q.v /\ q.v["correct_answer"].t = "int"
    /\ q.v["correct_answer"].v \in 0..(NumOptions - 1)

\* a kept record: the three checked fields as they were, the others defaulted when missing
Normalised(q) ==
    JDict([question |-> q.v["question"],
           options |-> q.v["options"],
           correct_answer |-> q.v["correct_answer"],
           explanation |-> IF "explanation" \in DOMAIN q.v THEN q.v["explanation"] ELSE JStr(""),
           difficulty |-> IF "difficulty" \in DOMAIN q.v THEN q.v["difficulty"]
                          ELSE JStr("Intermediate"),
           concept |-> IF "concept" \in DOMAIN q.v THEN q.v["concept"] ELSE JStr("General")])

KeptByContract(items) ==
    LET kept == SelectSeq(items, WellFormed) IN [i \in 1..Len(kept) |-> Normalised(kept[i])]

AllRecords(doc) == doc.t = "list" /\ \A i \in 1..Len(doc.v) : doc.v[i].t = "dict"

ValidateCalled == gen.pc = "done" /\ gen.kind = "quiz" /\ ~ResponseFailed(gen.resp)

\* C5: _validate_quiz keeps a record iff question is a string, options has exactly 4
\* entries and correct_answer is an integer in [0,4); kept records come in input order,
\* the three fields unchanged and missing explanation/difficulty/concept defaulted; all
\* other records are left out.
C5_KeptIffWellFormed ==
    (ValidateCalled /\ AllRecords(gen.resp.doc)) =>
        /\ gen.validated.kind = "returned"
        /\ gen.validated.value = JList(KeptByContract(gen.resp.doc.v))
        /\ Len(gen.validated.value.v) <= Len(gen.resp.doc.v)

\* C6: _validate_quiz never raises: for any parsed value, entries that are no mappings
\* and a JSON object in place of the array included, it returns a list.
C6_ValidationNeverRaises ==
    ValidateCalled =>
        /\ gen.validated.kind = "returned"
        /\ gen.validated.value.t = "list"

-----------------------------------------------------------------------------
(* ContentAnalyzer: texts, as the analyzer and its NLP collaborator see them *)

MaxSents == 2

MaxWordCount == 3100

\* what self.nlp(text) gives: token counts, sentence count, noun chunks in text order
NlpDoc(tokens, nonpunct, alpha, complex, sents, noun_chunks) ==
    [tokens |-> tokens, nonpunct |-> nonpunct, alpha |-> alpha, complex |-> complex,
     sents |-> sents, noun_chunks |-> noun_chunks]

\* a text: whether it is "", len(text.split()), len(re.split(r'[.!?]+', text)), the
\* keyword count of each topic in text.lower(), and the NLP collaborator's reading of it
Text(empty, words, fragments, hits, doc) ==
    [empty |-> empty, words |-> words, fragments |-> fragments, hits |-> hits, doc |-> doc]

TopicNames == <<"Biology", "Chemistry", "Physics", "Mathematics", "History", "Literature">>

NoHits == [i \in 1..Len(TopicNames) |-> 0]

HitPool == {NoHits, [NoHits EXCEPT ![1] = 3], [NoHits EXCEPT ![1] = 4],
            [NoHits EXCEPT ![3] = 5, ![5] = 9]}

Chunk(text, chars, words) == [text |-> text, chars |-> chars, words |-> words]

ChunkPool ==
    {<<>>,
     <<Chunk("the cell", 8, 2), Chunk("DNA", 3, 1), Chunk("the cell", 8, 2), Chunk("DNA", 3, 1),
       Chunk("DNA", 3, 1), Chunk("energy", 6, 1)>>,
     <<Chunk("a very long noun phrase", 23, 5), Chunk("a very long noun phrase", 23, 5),
       Chunk("energy", 6, 1), Chunk("the cell", 8, 2), Chunk("energy", 6, 1)>>}

\* "": the NLP collaborator gives no token and no sentence
EmptyText == Text(TRUE, 0, 1, NoHits, NlpDoc(0, 0, 0, 0, 0, <<>>))

\* "?!": punctuation only
PunctText == Text(FALSE, 1, 2, NoHits, NlpDoc(2, 0, 0, 0, 1, <<>>))

\* "42 7": tokens, none of them alphabetic
NumberText == Text(FALSE, 2, 1, NoHits, NlpDoc(2, 2, 0, 0, 1, <<>>))

\* w alphabetic words in s sentences that each end with a full stop, c of the words
\* longer than 6 characters
Prose(w, s, c, hits, noun_chunks) ==
    Text(FALSE, w, s + 1, hits, NlpDoc(w + s, w, w, c, s, noun_chunks))

TextPool ==
    {EmptyText, PunctText, NumberText}
    \cup {Prose(w, s, c, h, ch) : w \in {12, 40, 600}, s \in 1..MaxSents, c \in {0, 3, 10},
                                  h \in HitPool, ch \in ChunkPool}

\* an element of re.split(r'[.!?]+', content): its place, the whitespace before and
\* after it, the length of what is between, and whether that starts with 'however',
\* 'therefore' or 'moreover' when lowered
Fragment(idx, lead, chars, trail, lead_in) ==
    [idx |-> idx, lead |-> lead, chars |-> chars, trail |-> trail, lead_in |-> lead_in]

\* a section: title, len(content.strip()), len(content.split()), and the fragments
Section(has_title, stripped, words, fragments) ==
    [has_title |-> has_title, title |-> IF has_title THEN "Overview" ELSE "",
     stripped |-> stripped, words |-> words, fragments |-> fragments]

\* 49 characters without a terminator
ShortSection == Section(TRUE, 49, 9, <<Fragment(1, 0, 49, 0, FALSE)>>)

\* 20 characters, ".", " However" and 20 more characters, ".": 50 in all
EdgeSection ==
    Section(FALSE, 50, 10,
            <<Fragment(1, 0, 20, 0, FALSE), Fragment(2, 1, 27, 0, TRUE),
              Fragment(3, 0, 0, 0, FALSE)>>)

\* eleven sentences, each after the first behind a space, and the empty end
LongSection ==
    Section(TRUE, 495, 80,
            [i \in 1..12 |->
                Fragment(i, IF i \in 2..11 THEN 1 ELSE 0,
                         IF i = 2 THEN 200 ELSE IF i = 12 THEN 0 ELSE 21 + i, 0, i = 4)])

SectionsPool ==
    {<<>>, <<ShortSection>>, <<LongSection>>, <<EdgeSection, ShortSection, LongSection>>}

\* parsed documents; 'sections' may be absent (.get('sections', []))
ParsedDocuments ==
    {[text |-> t, has_sections |-> TRUE, sections |-> ss] : t \in TextPool, ss \in SectionsPool}
    \cup {[text |-> t, has_sections |-> FALSE, sections |-> <<>>] : t \in TextPool}

-----------------------------------------------------------------------------
(* ContentAnalyzer: the pure parts *)

CountIn(seq, x) == Cardinality({i \in 1..Len(seq) : seq[i] = x})

RECURSIVE DistinctInOrder(_, _)
\* the keys of Counter(seq), in insertion order
DistinctInOrder(seq, seen) ==
    IF seq = <<>> THEN seen
    ELSE DistinctInOrder(Tail(seq),
                         IF \E i \in 1..Len(seen) : seen[i] = Head(seq) THEN seen
                         ELSE Append(seen, Head(seq)))

RECURSIVE MostCommon(_, _)
\* Counter.most_common: by count, largest first, equal counts in insertion order
MostCommon(keys, seq) ==
    IF keys = <<>> THEN <<>>
    ELSE LET best == CHOOSE i \in 1..Len(keys) :
                        /\ \A j \in 1..Len(keys) : CountIn(seq, keys[j]) <= CountIn(seq, keys[i])
                        /\ \A j \in 1..(i - 1) : CountIn(seq, keys[j]) < CountIn(seq, keys[i])
             rest == [j \in 1..(Len(keys) - 1) |-> IF j < best THEN keys[j] ELSE keys[j + 1]]
         IN  <<keys[best]>> \o MostCommon(rest, seq)

ShortPhrase(chunk) == chunk.words <= 3

KeyConcept(chunk) == chunk.count > 1 /\ chunk.chars > 3

\* the part of _extract_key_concepts after doc = self.nlp(text); importance is in tenths
_extract_key_concepts(doc) ==
    LET noun_phrases == SelectSeq(doc.noun_chunks, ShortPhrase)
        ranked == MostCommon(DistinctInOrder(noun_phrases, <<>>), noun_phrases)
        top == SubSeq(ranked, 1, Min(20, Len(ranked)))
        counted == [i \in 1..Len(top) |->
                       [text |-> top[i].text, chars |-> top[i].chars,
                        count |-> CountIn(noun_phrases, top[i])]]
        kept == SelectSeq(counted, KeyConcept)
    IN  [i \in 1..Len(kept) |->
            [concept |-> kept[i].text, frequency |-> kept[i].count,
             importance |-> Min(kept[i].count, 10)]]

\* _assess_difficulty with inclusive cutoffs (>= where the code has >)
AssessDifficultyInclusive(doc) ==
    LET ratio_from(k) == doc.alpha > 0 /\ 10 * doc.complex >= k * doc.alpha IN
    IF doc.nonpunct >= 20 * doc.sents \/ ratio_from(3) THEN "Advanced"
    ELSE IF doc.nonpunct >= 15 * doc.sents \/ ratio_from(2) THEN "Intermediate"
    ELSE "Basic"

\* the part of _assess_difficulty after the division; sents > 0 here
\* avg_sentence_length > n is nonpunct > n * sents; complexity_ratio > k/10 is
\* 10 * complex > k * alpha, and the ratio is 0 when there is no alphabetic token
_assess_difficulty(doc) ==
    LET ratio_over(k) == doc.alpha > 0 /\ 10 * doc.complex > k * doc.alpha IN
    IF doc.nonpunct > 20 * doc.sents \/ ratio_over(3) THEN "Advanced"
    ELSE IF doc.nonpunct > 15 * doc.sents \/ ratio_over(2) THEN "Intermediate"
    ELSE "Basic"

_identify_topics(text) ==
    LET Matches(i) == text.hits[i] > 3
        found == SelectSeq([i \in 1..Len(TopicNames) |-> i], Matches)
    IN  [k \in 1..Len(found) |-> TopicNames[found[k]]]

\* sentence.strip()
strip(fragment) == [fragment EXCEPT !.lead = 0, !.trail = 0]

\* len(sentence) and sentence.lower().startswith(...) of a fragment as it stands
SentenceLen(fragment) == fragment.lead + fragment.chars + fragment.trail

StartsWithLeadIn(fragment) == fragment.lead = 0 /\ fragment.chars > 0 /\ fragment.lead_in

KeySentence(sentence) ==
    SentenceLen(sentence) > 20 /\ SentenceLen(sentence) < 200 /\ ~StartsWithLeadIn(sentence)

\* _extract_key_points without the sentences[:10] limit
ExtractKeyPointsUnlimited(fragments) ==
    LET sentences == [i \in 1..Len(fragments) |-> strip(fragments[i])]
        key_sentences == SelectSeq(sentences, KeySentence)
    IN  SubSeq(key_sentences, 1, Min(5, Len(key_sentences)))

_extract_key_points(fragments) ==
    LET sentences == [i \in 1..Min(10, Len(fragments)) |-> strip(fragments[i])]
        key_sentences == SelectSeq(sentences, KeySentence)
    IN  SubSeq(key_sentences, 1, Min(5, Len(key_sentences)))

\* _analyze_sections skipping a section of exactly 50 characters as well
AnalyzeSectionsOverFifty(sections) ==
    LET OverFifty(section) == section.stripped > 50
        kept == SelectSeq(sections, OverFifty)
    IN  [k \in 1..Len(kept) |->
            [title |-> IF kept[k].has_title THEN kept[k].title ELSE "Untitled",
             word_count |-> kept[k].words,
             key_points |-> _extract_key_points(kept[k].fragments),
             quiz_potential |-> kept[k].words \div 50]]

RECURSIVE _analyze_sections(_)
_analyze_sections(sections) ==
    IF sections = <<>> THEN <<>>
    ELSE LET section == Head(sections) IN
         (IF section.stripped < 50 THEN <<>>
          ELSE <<[title |-> IF section.has_title THEN section.title ELSE "Untitled",
                  word_count |-> section.words,
                  key_points |-> _extract_key_points(section.fragments),
                  quiz_potential |-> section.words \div 50]>>)
         \o _analyze_sections(Tail(sections))

\* round(max(0, min(1, 1 - (avg - 10) / 20)), 2) in hundredths, avg = words / fragments;
\* the value before rounding is (150 * fragments - 5 * words) / fragments hundredths
_calculate_readability(text) ==
    IF text.empty THEN 0
    ELSE LET num == 150 * text.fragments - 5 * text.words
             den == text.fragments
             clamped == IF num < 0 THEN 0 ELSE IF num > 100 * den THEN 100 * den ELSE num
             low == clamped \div den
             twice == 2 * (clamped - low * den)
         IN  IF twice < den THEN low
             ELSE IF twice > den THEN low + 1
             ELSE IF low % 2 = 0 THEN low ELSE low + 1

\* mutant: the 1500 boundary is taken with <= instead of <
SuggestQuizCountInclusive(text) ==
    IF text.words < 500 THEN 3
    ELSE IF text.words <= 1500 THEN 5
    ELSE IF text.words < 3000 THEN 8
    ELSE 10

_suggest_quiz_count(text) ==
    IF text.words < 500 THEN 3
    ELSE IF text.words < 1500 THEN 5
    ELSE IF text.words < 3000 THEN 8
    ELSE 10

-----------------------------------------------------------------------------
(* ContentAnalyzer.analyze: no try block; the dict is built field by field *)

NoAnalysis ==
    [key_concepts |-> <<>>, difficulty_level |-> "", topics |-> <<>>]

AnaReady ==
    [pc |-> "idle", parsed_document |-> [text |-> EmptyText, has_sections |-> FALSE, sections |-> <<>>],
     nlp_calls |-> 0, nlp_raised |-> FALSE, partial |-> NoAnalysis,
     outcome |-> [kind |-> "none"]]

InitAnalyze ==
    /\ ana = AnaReady
    /\ gen = GenIdle
    /\ SessionOff

BeginAnalyze ==
    /\ ana.pc = "idle"
    /\ \E parsed_document \in ParsedDocuments :
          ana' = [AnaReady EXCEPT !.pc = "key_concepts", !.parsed_document = parsed_document]
    /\ UNCHANGED <<svars, gen>>

\* self.nlp(text) raises: nothing catches it
NlpRaises ==
    ana' = [ana EXCEPT !.nlp_calls = @ + 1, !.nlp_raised = TRUE, !.pc = "done",
                       !.outcome = [kind |-> "raised", exc |-> "NlpError"]]

\* 'key_concepts': self._extract_key_concepts(text)
ExtractKeyConcepts ==
    /\ ana.pc = "key_concepts"
    /\ \/ ana' = [ana EXCEPT !.nlp_calls = @ + 1, !.pc = "difficulty",
                             !.partial.key_concepts =
                                 _extract_key_concepts(ana.parsed_document.text.doc)]
       \/ NlpRaises
    /\ UNCHANGED <<svars, gen>>

\* 'difficulty_level': self._assess_difficulty(text); the division by
\* len(list(doc.sents)) comes first
AssessDifficulty ==
    /\ ana.pc = "difficulty"
    /\ \/ IF ana.parsed_document.text.doc.sents = 0
          THEN ana' = [ana EXCEPT !.nlp_calls = @ + 1, !.pc = "done",
                                  !.outcome = [kind |-> "raised", exc |-> "ZeroDivisionError"]]
          ELSE ana' = [ana EXCEPT !.nlp_calls = @ + 1, !.pc = "topics",
                                  !.partial.difficulty_level =
                                      _assess_difficulty(ana.parsed_document.text.doc)]
       \/ NlpRaises
    /\ UNCHANGED <<svars, gen>>

\* 'topics': self._identify_topics(text)
IdentifyTopics ==
    /\ ana.pc = "topics"
    /\ \/ ana' = [ana EXCEPT !.nlp_calls = @ + 1, !.pc = "rest",
                             !.partial.topics = _identify_topics(ana.parsed_document.text)]
       \/ NlpRaises
    /\ UNCHANGED <<svars, gen>>

\* 'section_analysis', 'readability_score', 'suggested_quiz_count', and the return
analyze ==
    /\ ana.pc = "rest"
    /\ LET text == ana.parsed_document.text
           sections == IF ana.parsed_document.has_sections THEN ana.parsed_document.sections
                       ELSE <<>> IN
         ana' = [ana EXCEPT !.pc = "done",
                            !.outcome =
                                [kind |-> "returned",
                                 value |-> [key_concepts |-> ana.partial.key_concepts,
                                            difficulty_level |-> ana.partial.difficulty_level,
                                            topics |-> ana.partial.topics,
                                            section_analysis |-> _analyze_sections(sections),
                                            readability_score |-> _calculate_readability(text),
                                            suggested_quiz_count |-> _suggest_quiz_count(text)]]]
    /\ UNCHANGED <<svars, gen>>

AnaFinish ==
    /\ ana.pc = "done"
    /\ ana' = AnaReady
    /\ UNCHANGED <<svars, gen>>

NextAnalyze ==
    \/ BeginAnalyze
    \/ ExtractKeyConcepts
    \/ AssessDifficulty
    \/ IdentifyTopics
    \/ analyze
    \/ AnaFinish

SpecAnalyze == InitAnalyze /\ [][NextAnalyze]_vars

AnalysisFields ==
    {"key_concepts", "difficulty_level", "topics", "section_analysis", "readability_score",
     "suggested_quiz_count"}

\* C9: analyze fails only if the NLP collaborator fails: whenever every self.nlp call
\* returns (on empty text too, where it gives no token and no sentence), analyze returns
\* an Analysis with all six fields.
C9_AnalyzeFailsOnlyWithNlp ==
    (ana.pc = "done" /\ ~ana.nlp_raised) =>
        /\ ana.outcome.kind = "returned"
        /\ DOMAIN ana.outcome.value = AnalysisFields
        /\ ana.outcome.value.difficulty_level \in Difficulties

-----------------------------------------------------------------------------
(* _suggest_quiz_count on its own, over every word count up to MaxWordCount *)

InitQuizCount ==
    /\ ana \in {[pc |-> "count", text |-> [words |-> w], count |-> 0] : w \in 0..MaxWordCount}
    /\ gen = GenIdle
    /\ SessionOff

SuggestQuizCount ==
    /\ ana.pc = "count"
    /\ ana' = [ana EXCEPT !.pc = "counted", !.count = _suggest_quiz_count(ana.text)]
    /\ UNCHANGED <<svars, gen>>

NextQuizCount == SuggestQuizCount

SpecQuizCount == InitQuizCount /\ [][NextQuizCount]_vars

\* C10: _suggest_quiz_count gives 3 below 500 words, 5 from 500 to 1499, 8 from 1500 to
\* 2999 and 10 from 3000 on; it never decreases as the word count grows and takes no
\* other value.
C10_QuizCountSteps ==
    ana.pc = "counted" =>
        /\ ana.text.words < 500 => ana.count = 3
        /\ (500 <= ana.text.words /\ ana.text.words < 1500) => ana.count = 5
        /\ (1500 <= ana.text.words /\ ana.text.words < 3000) => ana.count = 8
        /\ ana.text.words >= 3000 => ana.count = 10
        /\ ana.count \in {3, 5, 8, 10}
        /\ ana.count <= _suggest_quiz_count([words |-> ana.text.words + 1])
        /\ ana.text.words = 600 => ana.count = 5

C10_Witness == ana.pc = "counted" /\ ana.text.words = 3000 /\ ana.count = 10

-----------------------------------------------------------------------------
(* _assess_difficulty on its own: every document with at least one sentence *)

MaxTokens == 45

MaxAlpha == 10

\* a document of s sentences that each end with a full stop, n tokens that are not
\* punctuation, a of them alphabetic and c of those longer than 6 characters
DifficultyDoc(n, s, a, c) == NlpDoc(n + s, n, a, c, s, <<>>)

\* the alphabetic tokens are among the non-punctuation tokens and the complex words
\* among the alphabetic ones
InitDifficulty ==
    /\ \E n \in 0..MaxTokens, s \in 1..MaxSents, a \in 0..MaxAlpha, c \in 0..MaxAlpha :
           /\ a <= n /\ c <= a
           /\ ana = [pc |-> "assess", doc |-> DifficultyDoc(n, s, a, c), level |-> "none"]
    /\ gen = GenIdle
    /\ SessionOff

AssessDifficultyAlone ==
    /\ ana.pc = "assess"
    /\ ana' = [ana EXCEPT !.pc = "assessed", !.level = _assess_difficulty(ana.doc)]
    /\ UNCHANGED <<svars, gen>>

NextDifficulty == AssessDifficultyAlone

SpecDifficulty == InitDifficulty /\ [][NextDifficulty]_vars

LevelRank(level) == IF level = "Basic" THEN 1 ELSE IF level = "Intermediate" THEN 2 ELSE 3

\* C11: with at least one sentence the level is Advanced iff the average sentence length
\* is over 20 or the complexity ratio over 0.3, otherwise Intermediate iff the average is
\* over 15 or the ratio over 0.2, otherwise Basic; the cutoffs are strict; and a document
\* with the same ratio and an average at least as large, or the same average and a ratio
\* at least as large, never gets a lower level.
C11_DifficultyThresholds ==
    ana.pc = "assessed" =>
        LET d == ana.doc
            avg_over(n) == d.nonpunct > n * d.sents
            ratio_over(k) == d.alpha > 0 /\ 10 * d.complex > k * d.alpha
            advanced == avg_over(20) \/ ratio_over(3)
            intermediate == ~advanced /\ (avg_over(15) \/ ratio_over(2))
            avg_not_less(n, s) == n * d.sents >= d.nonpunct * s
            ratio_not_less(a, c) ==
                \/ d.alpha = 0 \/ d.complex = 0
                \/ a > 0 /\ c * d.alpha >= d.complex * a
        IN  /\ ana.level \in Difficulties
            /\ ana.level = "Advanced" <=> advanced
            /\ ana.level = "Intermediate" <=> intermediate
            /\ ana.level = "Basic" <=> ~advanced /\ ~intermediate
            /\ (d.nonpunct = 20 * d.sents /\ ~ratio_over(3)) => ana.level # "Advanced"
            /\ (d.nonpunct = 15 * d.sents /\ ~ratio_over(2)) => ana.level = "Basic"
            /\ (d.alpha > 0 /\ 10 * d.complex = 3 * d.alpha /\ ~avg_over(20))
                   => ana.level # "Advanced"
            /\ (d.alpha > 0 /\ 10 * d.complex = 2 * d.alpha /\ ~avg_over(15))
                   => ana.level = "Basic"
            /\ \A n \in d.alpha..MaxTokens, s \in 1..MaxSents :
                   avg_not_less(n, s) =>
                       LevelRank(ana.level) <=
                           LevelRank(_assess_difficulty(DifficultyDoc(n, s, d.alpha, d.complex)))
            /\ \A a \in 0..Min(MaxAlpha, d.nonpunct), c \in 0..MaxAlpha :
                   (c <= a /\ ratio_not_less(a, c)) =>
                       LevelRank(ana.level) <=
                           LevelRank(_assess_difficulty(DifficultyDoc(d.nonpunct, d.sents, a, c)))

C11_Witness ==
    /\ ana.pc = "assessed"
    /\ ana.doc.nonpunct = 20 * ana.doc.sents
    /\ ana.doc.alpha > 0
    /\ 10 * ana.doc.complex = 3 * ana.doc.alpha
    /\ ana.level = "Intermediate"

-----------------------------------------------------------------------------
(* _extract_key_points on its own: every split of up to MaxFragments fragments *)

MaxFragments == 12

\* the fragment at place i: one that the filter keeps (21 characters behind a space, or
\* 199 before a space) or one that it drops (20 characters behind a space, 200
\* characters, a lead-in word behind a space, or whitespace only)
FragmentAt(i, kept) ==
    IF kept THEN (IF i % 2 = 0 THEN Fragment(i, 1, 21, 0, FALSE)
                  ELSE Fragment(i, 0, 199, 1, FALSE))
    ELSE IF i % 4 = 0 THEN Fragment(i, 1, 20, 0, FALSE)
    ELSE IF i % 4 = 1 THEN Fragment(i, 0, 200, 0, FALSE)
    ELSE IF i % 4 = 2 THEN Fragment(i, 1, 30, 0, TRUE)
    ELSE Fragment(i, 2, 0, 0, FALSE)

\* re.split gives at least one fragment
InitKeyPoints ==
    /\ \E n \in 1..MaxFragments : \E keep \in SUBSET (1..n) :
           ana = [pc |-> "split", fragments |-> [i \in 1..n |-> FragmentAt(i, i \in keep)],
                  key_points |-> <<>>]
    /\ gen = GenIdle
    /\ SessionOff

ExtractKeyPoints ==
    /\ ana.pc = "split"
    /\ ana' = [ana EXCEPT !.pc = "extracted", !.key_points = _extract_key_points(ana.fragments)]
    /\ UNCHANGED <<svars, gen>>

NextKeyPoints == ExtractKeyPoints

SpecKeyPoints == InitKeyPoints /\ [][NextKeyPoints]_vars

\* C12: _extract_key_points returns at most 5 items; each is the trimmed form of one of
\* the first 10 fragments, is 21..199 characters long and does not start with a lead-in
\* word; the items are in text order; and they are exactly the first 5 fragments among
\* the first 10 that qualify, so that a fragment at place 11 or later is never returned.
C12_KeyPointsFirstFive ==
    ana.pc = "extracted" =>
        LET out == ana.key_points
            f == ana.fragments
            qualifying == {i \in 1..Len(f) : /\ i <= 10
                                             /\ f[i].chars >= 21 /\ f[i].chars <= 199
                                             /\ ~f[i].lead_in}
            first_five == {i \in qualifying : Cardinality({j \in qualifying : j < i}) < 5}
        IN  /\ Len(out) <= 5
            /\ \A k \in 1..Len(out) :
                   /\ out[k].idx \in 1..Len(f) /\ out[k].idx <= 10
                   /\ out[k] = [f[out[k].idx] EXCEPT !.lead = 0, !.trail = 0]
                   /\ out[k].lead + out[k].chars + out[k].trail >= 21
                   /\ out[k].lead + out[k].chars + out[k].trail <= 199
                   /\ ~out[k].lead_in
            /\ \A k \in 1..Len(out) : \A l \in 1..Len(out) : k < l => out[k].idx < out[l].idx
            /\ {out[k].idx : k \in 1..Len(out)} = first_five
            /\ Len(out) = Cardinality(first_five)

\* fewer than 5 found among the first 10 and a qualifying fragment at place 11
C12_Witness ==
    /\ ana.pc = "extracted"
    /\ Len(ana.fragments) >= 11
    /\ ana.fragments[11].chars = 199
    /\ ~ana.fragments[11].lead_in
    /\ Len(ana.key_points) = 4
    /\ ana.key_points[1].idx = 2
    /\ ana.fragments[2].lead = 1
    /\ ana.key_points[1].lead = 0

-----------------------------------------------------------------------------
(* _analyze_sections on its own: every list of up to MaxSections sections *)

MaxSections == 3

\* a section without 'content': section.get('content', '') is ""
NoContentSection == Section(TRUE, 0, 0, <<Fragment(1, 0, 0, 0, FALSE)>>)

\* w words of 5 letters with single spaces between them, no terminator
PlainSection(w) == Section(TRUE, 6 * w - 1, w, <<Fragment(1, 0, 6 * w - 1, 0, FALSE)>>)

SectionKinds ==
    {NoContentSection, ShortSection, EdgeSection, LongSection}
    \cup {PlainSection(w) : w \in {49, 50, 100}}

InitSections ==
    /\ \E n \in 0..MaxSections : \E ss \in [1..n -> SectionKinds] :
           ana = [pc |-> "sections", sections |-> ss, analyzed_sections |-> <<>>]
    /\ gen = GenIdle
    /\ SessionOff

AnalyzeSections ==
    /\ ana.pc = "sections"
    /\ ana' = [ana EXCEPT !.pc = "analyzed",
                          !.analyzed_sections = _analyze_sections(ana.sections)]
    /\ UNCHANGED <<svars, gen>>

NextSections == AnalyzeSections

SpecSections == InitSections /\ [][NextSections]_vars

\* C13: _analyze_sections returns one summary for each section whose stripped content
\* has at least 50 characters, in document order, and none for a shorter one; the
\* summary's word_count is the section's whitespace-split token count, its
\* quiz_potential is word_count // 50 and it has at most 5 key points; one section of
\* 80 words gives one summary with quiz_potential 1.
C13_SectionSummaries ==
    ana.pc = "analyzed" =>
        LET out == ana.analyzed_sections
            ss == ana.sections
            kept == {i \in 1..Len(ss) : ss[i].stripped >= 50}
            place(k) == CHOOSE i \in kept : Cardinality({j \in kept : j < i}) = k - 1
        IN  /\ Len(out) = Cardinality(kept)
            /\ Len(out) <= Len(ss)
            /\ \A k \in 1..Len(out) :
                   /\ out[k].word_count = ss[place(k)].words
                   /\ out[k].title = (IF ss[place(k)].has_title THEN ss[place(k)].title
                                      ELSE "Untitled")
                   /\ out[k].quiz_potential = out[k].word_count \div 50
                   /\ Len(out[k].key_points) <= 5
                   /\ \A p \in 1..Len(out[k].key_points) :
                          \E i \in 1..Len(ss[place(k)].fragments) :
                              out[k].key_points[p].idx = ss[place(k)].fragments[i].idx
            /\ (Len(ss) = 1 /\ ss[1].stripped >= 50 /\ ss[1].words = 80)
                   => (Len(out) = 1 /\ out[1].quiz_potential = 1)

\* a section of exactly 50 characters kept, a shorter one dropped, the 80-word one last
C13_Witness ==
    /\ ana.pc = "analyzed"
    /\ Len(ana.sections) = 3
    /\ ana.sections[1].stripped = 50
    /\ ana.sections[2].stripped = 49
    /\ ana.sections[3].words = 80
    /\ Len(ana.analyzed_sections) = 2
    /\ ana.analyzed_sections[1].word_count = 10
    /\ ana.analyzed_sections[2].quiz_potential = 1

====
